---- MODULE Spec2Model ----
(***************************************************************************)
(* MediConnect: the prescription lifecycle, the inventory threshold        *)
(* queries and the AI conversation store, as implemented by                *)
(* server/routes.ts, server/storage.ts and shared/schema.ts.               *)
(***************************************************************************)
EXTENDS Integers, Sequences, FiniteSets, TLC

(***************************************************************************)
(* Bounds of the model.                                                    *)
(***************************************************************************)
MaxRx == 2
MaxItems == 2
MaxNow == 2
MaxChatNow == 1
MaxConversations == 2
MaxTurns == 2
TicksPerDay == 2

(***************************************************************************)
(* Constants of the program.                                               *)
(***************************************************************************)
DefaultCurrentStock == 0
DefaultMinStockLevel == 10
ExpiryHorizon == 30
DashboardSlice == 5

(***************************************************************************)
(* Values of absent things.                                                *)
(***************************************************************************)
NoSession == "no-session"
NoProfile == "no-profile"
Absent == "absent"
Null == "null"

(***************************************************************************)
(* The registered users and their role profiles.  "doc0" registered with   *)
(* the doctor role but without a licence number: the user row was          *)
(* inserted and registration answered 400 before the doctor profile was    *)
(* created.                                                                *)
(***************************************************************************)
Users == {"pat1", "doc1", "doc0", "phX", "phY"}

Callers == Users \cup {NoSession}

userRole(u) ==
    CASE u = "pat1" -> "patient"
      [] u \in {"doc1", "doc0"} -> "doctor"
      [] u \in {"phX", "phY"} -> "pharmacy"
      [] OTHER -> Absent

getDoctorByUserId(u) == IF u = "doc1" THEN "D1" ELSE NoProfile

getPharmacyByUserId(u) ==
    CASE u = "phX" -> "X"
      [] u = "phY" -> "Y"
      [] OTHER -> NoProfile

PatientIds == {"P1"}
PharmacyIds == {"X", "Y"}

(***************************************************************************)
(* A variant of the middleware that lets every request through.            *)
(***************************************************************************)
requireAuthAnyone(caller) == TRUE

(***************************************************************************)
(* requireAuth: a request without a session user is answered 401 before    *)
(* its handler runs.                                                       *)
(***************************************************************************)
requireAuth(caller) == caller # NoSession

VARIABLES
    prescriptions,  \* the prescriptions table, in insertion order
    inventory,      \* the inventory table, in insertion order
    aiConversations, \* the ai_conversations table, in insertion order
    chat,           \* the requests in flight: the handler's locals
    turns,          \* the number of chat requests accepted so far
    now,            \* the server clock, in ticks since the epoch (UTC)
    tz,             \* the server's zone: local time minus UTC, in ticks
    req,            \* the request the last step handled, if it handled one
    res             \* the response it was given

vars == <<prescriptions, inventory, aiConversations, chat, turns, now, tz, req, res>>

clock == <<now, tz>>

conversationStore == <<aiConversations, chat, turns>>

NoReq == [op |-> "none", caller |-> NoSession, id |-> 0, status |-> Absent]
NoRow == [id |-> 0]
Reply(code, row) == [code |-> code, row |-> row]

(***************************************************************************)
(* The prescription statuses of the schema, and what a request body may    *)
(* carry in its status field.                                              *)
(***************************************************************************)
PrescriptionStatuses == <<"pending", "approved", "dispensed", "completed">>

StatusSet == {PrescriptionStatuses[i] : i \in 1..Len(PrescriptionStatuses)}

BodyStatuses == StatusSet \cup {"cancelled"}

(***************************************************************************)
(* A JSON body or a row has a value for a key or does not: an absent key   *)
(* of a body is undefined, an absent key of a row is NULL.                 *)
(***************************************************************************)
Has(record, key) == key \in DOMAIN record

Field(record, key) == IF Has(record, key) THEN key :> record[key] ELSE <<>>

(***************************************************************************)
(* The bodies of POST /api/prescriptions: with or without a pharmacy, with *)
(* an empty or a one-entry medication list, with or without a status       *)
(* field, with or without the (NOT NULL) patient.                          *)
(***************************************************************************)
CreateBodies ==
    [patientId : PatientIds,
     appointmentId : {"A1"},
     pharmacyId : PharmacyIds \cup {Absent},
     medications : {<<"Amoxicillin">>},
     instructions : {"after meals"},
     validUntil : {30},
     status : {Absent, "dispensed"}]
    \cup
    [patientId : PatientIds \cup {Absent},
     appointmentId : {"A1"},
     pharmacyId : {Absent},
     medications : {<<>>},
     instructions : {"after meals"},
     validUntil : {30},
     status : {"dispensed"}]
    \cup
    {[patientId |-> "P1", appointmentId |-> "A1", pharmacyId |-> "X",
      medications |-> <<"Amoxicillin">>, instructions |-> "after meals",
      validUntil |-> 30, status |-> Absent, doctorId |-> "D2"]}

(***************************************************************************)
(* The requests of the model.  A handler reads the body only after its     *)
(* role gate, so callers the gate rejects come with fewer bodies.          *)
(***************************************************************************)
CreateRequests ==
    {r \in Callers \X CreateBodies :
        \/ getDoctorByUserId(r[1]) # NoProfile
        \/ r[2].pharmacyId = "X" /\ r[2].status = "dispensed"}

StatusRequests ==
    {r \in Callers \X (1..(MaxRx + 1)) \X BodyStatuses :
        \/ userRole(r[1]) = "pharmacy" /\ (r[2] <= MaxRx \/ r[3] = "approved")
        \/ r[2] = 1 /\ r[3] = "approved"}

Reverse(s) == [i \in 1..Len(s) |-> s[Len(s) + 1 - i]]

(***************************************************************************)
(* A variant that takes the status from the body, as the other fields are. *)
(***************************************************************************)
prescriptionDataBodyStatus(doctor, body) ==
    [doctorId |-> doctor,
     patientId |-> body.patientId,
     appointmentId |-> body.appointmentId,
     pharmacyId |-> IF body.pharmacyId = Absent THEN Null ELSE body.pharmacyId,
     medications |-> body.medications,
     instructions |-> body.instructions,
     validUntil |-> body.validUntil,
     status |-> body.status]

(***************************************************************************)
(* A variant that lets a doctorId of the body stand.                       *)
(***************************************************************************)
prescriptionDataBodyDoctor(doctor, body) ==
    [doctorId |-> IF Has(body, "doctorId") THEN body.doctorId ELSE doctor,
     patientId |-> body.patientId,
     appointmentId |-> body.appointmentId,
     pharmacyId |-> IF body.pharmacyId = Absent THEN Null ELSE body.pharmacyId,
     medications |-> body.medications,
     instructions |-> body.instructions,
     validUntil |-> body.validUntil,
     status |-> "pending"]

(***************************************************************************)
(* POST /api/prescriptions builds the row from the caller's doctor profile *)
(* and the body, with the status fixed.                                    *)
(***************************************************************************)
prescriptionData(doctor, body) ==
    [doctorId |-> doctor,
     patientId |-> body.patientId,
     appointmentId |-> body.appointmentId,
     pharmacyId |-> IF body.pharmacyId = Absent THEN Null ELSE body.pharmacyId,
     medications |-> body.medications,
     instructions |-> body.instructions,
     validUntil |-> body.validUntil,
     status |-> "pending"]

(***************************************************************************)
(* The NOT NULL and foreign-key constraints of the prescriptions table.    *)
(***************************************************************************)
PrescriptionInsertable(data) ==
    /\ data.patientId \in PatientIds
    /\ data.doctorId # NoProfile
    /\ data.pharmacyId \in PharmacyIds \cup {Null}

createPrescription(data) ==
    Append(prescriptions,
           [id |-> Len(prescriptions) + 1,
            doctorId |-> data.doctorId,
            patientId |-> data.patientId,
            appointmentId |-> data.appointmentId,
            pharmacyId |-> data.pharmacyId,
            medications |-> data.medications,
            instructions |-> data.instructions,
            validUntil |-> data.validUntil,
            status |-> IF data.status = Absent THEN "pending" ELSE data.status])

(***************************************************************************)
(* A variant of the handler without the profile check: a doctor without a  *)
(* profile runs into the insert.                                           *)
(***************************************************************************)
CreatePrescriptionNoProfileCheck(caller, body) ==
    /\ req' = [op |-> "createPrescription", caller |-> caller, id |-> 0,
               status |-> body.status]
    /\ UNCHANGED <<inventory, conversationStore, clock>>
    /\ IF ~requireAuth(caller)
       THEN /\ res' = Reply(401, NoRow)
            /\ UNCHANGED prescriptions
       ELSE IF userRole(caller) # "doctor"
       THEN /\ res' = Reply(403, NoRow)
            /\ UNCHANGED prescriptions
       ELSE LET data == prescriptionData(getDoctorByUserId(caller), body)
            IN  IF ~PrescriptionInsertable(data)
                THEN /\ res' = Reply(500, NoRow)
                     /\ UNCHANGED prescriptions
                ELSE /\ Len(prescriptions) < MaxRx
                     /\ prescriptions' = createPrescription(data)
                     /\ res' = Reply(200, prescriptions'[Len(prescriptions')])

(***************************************************************************)
(* POST /api/prescriptions.                                                *)
(***************************************************************************)
CreatePrescription(caller, body) ==
    /\ req' = [op |-> "createPrescription", caller |-> caller, id |-> 0,
               status |-> body.status] @@ Field(body, "doctorId")
    /\ UNCHANGED <<inventory, conversationStore, clock>>
    /\ IF ~requireAuth(caller)
       THEN /\ res' = Reply(401, NoRow)
            /\ UNCHANGED prescriptions
       ELSE IF userRole(caller) # "doctor"
       THEN /\ res' = Reply(403, NoRow)
            /\ UNCHANGED prescriptions
       ELSE IF getDoctorByUserId(caller) = NoProfile
       THEN /\ res' = Reply(404, NoRow)
            /\ UNCHANGED prescriptions
       ELSE LET data == prescriptionData(getDoctorByUserId(caller), body)
            IN  IF ~PrescriptionInsertable(data)
                THEN /\ res' = Reply(500, NoRow)
                     /\ UNCHANGED prescriptions
                ELSE /\ Len(prescriptions) < MaxRx
                     /\ prescriptions' = createPrescription(data)
                     /\ res' = Reply(200, prescriptions'[Len(prescriptions')])

(***************************************************************************)
(* storage.updatePrescription(id, {status}): one UPDATE ... WHERE id = id. *)
(* A key whose value is undefined is left out of the SET clause.           *)
(***************************************************************************)
updatePrescription(id, status) ==
    [i \in 1..Len(prescriptions) |->
        IF prescriptions[i].id = id /\ status # Absent
        THEN [prescriptions[i] EXCEPT !.status = status]
        ELSE prescriptions[i]]

(***************************************************************************)
(* A variant of the handler whose gate turns away patients only.           *)
(***************************************************************************)
SetPrescriptionStatusPatientGate(caller, id, status) ==
    /\ req' = [op |-> "setStatus", caller |-> caller, id |-> id, status |-> status]
    /\ UNCHANGED <<inventory, conversationStore, clock>>
    /\ IF ~requireAuth(caller)
       THEN /\ res' = Reply(401, NoRow)
            /\ UNCHANGED prescriptions
       ELSE IF userRole(caller) = "patient"
       THEN /\ res' = Reply(403, NoRow)
            /\ UNCHANGED prescriptions
       ELSE /\ prescriptions' = updatePrescription(id, status)
            /\ res' = Reply(200, IF id \in 1..Len(prescriptions)
                                 THEN prescriptions'[id] ELSE NoRow)

(***************************************************************************)
(* A variant of the handler that takes a unit from the stock of every      *)
(* dispensed medicine.                                                     *)
(***************************************************************************)
SetPrescriptionStatusDeductsStock(caller, id, status) ==
    /\ req' = [op |-> "setStatus", caller |-> caller, id |-> id, status |-> status]
    /\ UNCHANGED <<conversationStore, clock>>
    /\ IF ~requireAuth(caller)
       THEN /\ res' = Reply(401, NoRow)
            /\ UNCHANGED <<prescriptions, inventory>>
       ELSE IF userRole(caller) # "pharmacy"
       THEN /\ res' = Reply(403, NoRow)
            /\ UNCHANGED <<prescriptions, inventory>>
       ELSE /\ prescriptions' = updatePrescription(id, status)
            /\ inventory' =
                  IF status = "dispensed" /\ id \in 1..Len(prescriptions)
                  THEN [i \in 1..Len(inventory) |->
                          IF \E k \in 1..Len(prescriptions[id].medications) :
                                prescriptions[id].medications[k]
                                    = inventory[i].medicineName
                          THEN [inventory[i] EXCEPT !.currentStock = @ - 1]
                          ELSE inventory[i]]
                  ELSE inventory
            /\ res' = Reply(200, IF id \in 1..Len(prescriptions)
                                 THEN prescriptions'[id] ELSE NoRow)

(***************************************************************************)
(* PUT /api/prescriptions/:id/status.  res.json(undefined) answers 200     *)
(* with no body when the id matches no row.                                *)
(***************************************************************************)
SetPrescriptionStatus(caller, id, status) ==
    /\ req' = [op |-> "setStatus", caller |-> caller, id |-> id, status |-> status]
    /\ UNCHANGED <<inventory, conversationStore, clock>>
    /\ IF ~requireAuth(caller)
       THEN /\ res' = Reply(401, NoRow)
            /\ UNCHANGED prescriptions
       ELSE IF userRole(caller) # "pharmacy"
       THEN /\ res' = Reply(403, NoRow)
            /\ UNCHANGED prescriptions
       ELSE /\ prescriptions' = updatePrescription(id, status)
            /\ res' = Reply(200, IF id \in 1..Len(prescriptions)
                                 THEN prescriptions'[id] ELSE NoRow)

(***************************************************************************)
(* Variants of the dispenser query: without the status filter, with        *)
(* unassigned prescriptions added, with the pending ones only.             *)
(***************************************************************************)
getPharmacyPrescriptionsAnyStatus(pharmacyId) ==
    Reverse(SelectSeq(prescriptions, LAMBDA p : p.pharmacyId = pharmacyId))

getPharmacyPrescriptionsOrUnassigned(pharmacyId) ==
    Reverse(SelectSeq(prescriptions,
                      LAMBDA p : /\ (p.pharmacyId = pharmacyId \/ p.pharmacyId = Null)
                                 /\ (p.status = "pending" \/ p.status = "approved")))

getPharmacyPrescriptionsPendingOnly(pharmacyId) ==
    Reverse(SelectSeq(prescriptions,
                      LAMBDA p : /\ p.pharmacyId = pharmacyId
                                 /\ p.status = "pending"))

(***************************************************************************)
(* storage.getPharmacyPrescriptions: the rows of the pharmacy that are     *)
(* pending or approved, newest first (rows are kept in insertion order,    *)
(* which is the order of createdAt).                                       *)
(***************************************************************************)
getPharmacyPrescriptions(pharmacyId) ==
    Reverse(SelectSeq(prescriptions,
                      LAMBDA p : /\ p.pharmacyId = pharmacyId
                                 /\ (p.status = "pending" \/ p.status = "approved")))

(***************************************************************************)
(* The inventory ledger.  A calendar date is a day number; the clock       *)
(* counts TicksPerDay ticks a day.                                         *)
(***************************************************************************)
TzOffsets == {-1, 0, 1}

(***************************************************************************)
(* The bodies of POST /api/inventory: an item below its minimum, one at    *)
(* its minimum, one above it, one that leaves stock, minimum and expiry to *)
(* the column defaults, and one without the (NOT NULL) medicine name.      *)
(***************************************************************************)
InventoryBodies ==
    {[medicineName |-> "Amoxicillin", currentStock |-> 5, minStockLevel |-> 10,
      expiryDate |-> ExpiryHorizon],
     [medicineName |-> "Ibuprofen", currentStock |-> 10, minStockLevel |-> 10,
      expiryDate |-> ExpiryHorizon + 1],
     [medicineName |-> "Cetirizine", currentStock |-> 11, minStockLevel |-> 10,
      expiryDate |-> 1],
     [medicineName |-> "Paracetamol"],
     [medicineName |-> "Aspirin", currentStock |-> -1, minStockLevel |-> -1],
     [currentStock |-> 5, minStockLevel |-> 10],
     [medicineName |-> "Paracetamol", pharmacyId |-> "Y"]}

(***************************************************************************)
(* A variant that spreads the body over the caller's pharmacy, so that a   *)
(* pharmacyId of the body wins.                                            *)
(***************************************************************************)
itemDataBodyWins(pharmacy, body) ==
    Field(body, "pharmacyId") @@ [pharmacyId |-> pharmacy]
        @@ Field(body, "medicineName") @@ Field(body, "currentStock")
        @@ Field(body, "minStockLevel") @@ Field(body, "expiryDate")

(***************************************************************************)
(* POST /api/inventory spreads the body and overwrites its pharmacyId.     *)
(***************************************************************************)
itemData(pharmacy, body) ==
    [pharmacyId |-> pharmacy]
        @@ Field(body, "medicineName") @@ Field(body, "currentStock")
        @@ Field(body, "minStockLevel") @@ Field(body, "expiryDate")

(***************************************************************************)
(* The NOT NULL and foreign-key constraints of the inventory table.        *)
(***************************************************************************)
InventoryInsertable(data) ==
    /\ data.pharmacyId \in PharmacyIds
    /\ Has(data, "medicineName")

(***************************************************************************)
(* storage.createInventoryItem: one INSERT; a column the data leaves out   *)
(* takes its default, and expiry_date has none.                            *)
(***************************************************************************)
createInventoryItem(data) ==
    Append(inventory,
           [id |-> Len(inventory) + 1,
            pharmacyId |-> data.pharmacyId,
            medicineName |-> data.medicineName,
            currentStock |-> IF Has(data, "currentStock")
                             THEN data.currentStock ELSE DefaultCurrentStock,
            minStockLevel |-> IF Has(data, "minStockLevel")
                              THEN data.minStockLevel ELSE DefaultMinStockLevel]
               @@ Field(data, "expiryDate"))

CreateInventoryItem(caller, body) ==
    /\ req' = [op |-> "createInventoryItem", caller |-> caller, id |-> 0,
               status |-> Absent] @@ Field(body, "pharmacyId")
    /\ UNCHANGED <<prescriptions, conversationStore, clock>>
    /\ IF ~requireAuth(caller)
       THEN /\ res' = Reply(401, NoRow)
            /\ UNCHANGED inventory
       ELSE IF userRole(caller) # "pharmacy"
       THEN /\ res' = Reply(403, NoRow)
            /\ UNCHANGED inventory
       ELSE IF getPharmacyByUserId(caller) = NoProfile
       THEN /\ res' = Reply(404, NoRow)
            /\ UNCHANGED inventory
       ELSE LET data == itemData(getPharmacyByUserId(caller), body)
            IN  IF ~InventoryInsertable(data)
                THEN /\ res' = Reply(500, NoRow)
                     /\ UNCHANGED inventory
                ELSE /\ Len(inventory) < MaxItems
                     /\ inventory' = createInventoryItem(data)
                     /\ res' = Reply(200, inventory'[Len(inventory')])

(***************************************************************************)
(* A variant of the low-stock query that also returns items at their       *)
(* minimum.                                                                *)
(***************************************************************************)
getLowStockItemsAtMost(pharmacyId) ==
    SortSeq(SelectSeq(inventory,
                      LAMBDA item : /\ item.pharmacyId = pharmacyId
                                    /\ item.currentStock <= item.minStockLevel),
            LAMBDA a, b : a.currentStock < b.currentStock)

(***************************************************************************)
(* storage.getLowStockItems: the items of the pharmacy whose stock is      *)
(* below their minimum, the most depleted first.                           *)
(***************************************************************************)
getLowStockItems(pharmacyId) ==
    SortSeq(SelectSeq(inventory,
                      LAMBDA item : /\ item.pharmacyId = pharmacyId
                                    /\ item.currentStock < item.minStockLevel),
            LAMBDA a, b : a.currentStock < b.currentStock)

(***************************************************************************)
(* The inventory modal of the client: the stock badge of an item, and the  *)
(* items of a list that the quick-restock banner names.                    *)
(***************************************************************************)
getStockStatus(currentStock, minLevel) ==
    IF currentStock = 0 THEN "out"
    ELSE IF currentStock <= minLevel THEN "low"
    ELSE "good"

quickRestockItems(items) ==
    SelectSeq(items, LAMBDA item : item.currentStock <= item.minStockLevel)

(***************************************************************************)
(* The Date arithmetic of getExpiringItems.  getDate and setDate work on   *)
(* the server's local time, toISOString prints UTC; the date part of the   *)
(* ISO string is the UTC calendar date of the instant.  The zone offset is *)
(* taken to be the same at both ends of the horizon.                       *)
(***************************************************************************)
LocalTime(instant) == instant + tz

SetDatePlus(instant, days) == (LocalTime(instant) + days * TicksPerDay) - tz

ISODate(instant) == instant \div TicksPerDay

(***************************************************************************)
(* A variant of the near-expiry query that also returns items expiring on  *)
(* the cutoff date.                                                        *)
(***************************************************************************)
getExpiringItemsAtMost(pharmacyId, days) ==
    LET expiryDate == ISODate(SetDatePlus(now, days))
    IN  SortSeq(SelectSeq(inventory,
                          LAMBDA item : /\ item.pharmacyId = pharmacyId
                                        /\ Has(item, "expiryDate")
                                        /\ item.expiryDate <= expiryDate),
                LAMBDA a, b : a.expiryDate < b.expiryDate)

(***************************************************************************)
(* storage.getExpiringItems: the items of the pharmacy whose expiry date   *)
(* is before the cutoff date, the earliest first.  A NULL expiry date      *)
(* compares as unknown and the row is left out.                            *)
(***************************************************************************)
getExpiringItems(pharmacyId, days) ==
    LET expiryDate == ISODate(SetDatePlus(now, days))
    IN  SortSeq(SelectSeq(inventory,
                          LAMBDA item : /\ item.pharmacyId = pharmacyId
                                        /\ Has(item, "expiryDate")
                                        /\ item.expiryDate < expiryDate),
                LAMBDA a, b : a.expiryDate < b.expiryDate)

Take(s, n) == SubSeq(s, 1, IF Len(s) < n THEN Len(s) ELSE n)

(***************************************************************************)
(* GET /api/pharmacy/dashboard.                                            *)
(***************************************************************************)
PharmacyDashboard(caller) ==
    /\ req' = [op |-> "pharmacyDashboard", caller |-> caller, id |-> 0,
               status |-> Absent]
    /\ UNCHANGED <<prescriptions, inventory, conversationStore, clock>>
    /\ IF ~requireAuth(caller)
       THEN res' = Reply(401, NoRow)
       ELSE IF userRole(caller) # "pharmacy"
       THEN res' = Reply(403, NoRow)
       ELSE IF getPharmacyByUserId(caller) = NoProfile
       THEN res' = Reply(404, NoRow)
       ELSE LET pharmacy == getPharmacyByUserId(caller)
                queue == getPharmacyPrescriptions(pharmacy)
                lowStockItems == getLowStockItems(pharmacy)
                expiringItems == getExpiringItems(pharmacy, ExpiryHorizon)
                pending == SelectSeq(queue, LAMBDA p : p.status = "pending")
            IN  res' = Reply(200,
                             [pharmacy |-> pharmacy,
                              newPrescriptions |-> Take(pending, DashboardSlice),
                              lowStockItems |-> Take(lowStockItems, DashboardSlice),
                              expiringItems |-> Take(expiringItems, DashboardSlice),
                              pendingOrders |-> Len(pending),
                              lowStockCount |-> Len(lowStockItems)])

(***************************************************************************)
(* The conversation store.  POST /api/ai/chat awaits the store and the     *)
(* text-generation service in turn; each await is a step of the request,   *)
(* and steps of different requests interleave.                             *)
(***************************************************************************)
ChatRequests == {"r1", "r2"}

ChatCallers == {"pat1", "phX", NoSession}

Messages == <<"hello", "thanks", "bye">>

(***************************************************************************)
(* The text of the request body. Successive requests carry different texts *)
(* so that a turn can be told from another in a transcript.                *)
(***************************************************************************)
MessageOf(n) == Messages[(n % Len(Messages)) + 1]

Contexts == {Absent, "refill"}

(***************************************************************************)
(* The requests the model sends: the patient's with and without a context, *)
(* the pharmacy's without one, and one that carries no session.            *)
(***************************************************************************)
ChatInputs ==
    {c \in ChatCallers \X Contexts : c[1] = "pat1" \/ c[2] = Absent}

UpstreamOutcomes == {"content", "fetch failed", "status not ok", "no choices"}

Idle == [pc |-> "idle"]

InFlight(r) == chat[r].pc # "idle"

(***************************************************************************)
(* The names of the requests in flight carry no meaning: a new request     *)
(* takes the first free name.                                              *)
(***************************************************************************)
FreeRequest(r) == ~InFlight(r) /\ (r = "r1" \/ InFlight("r1"))

(***************************************************************************)
(* storage.getUserAIConversations(userId)[0]: the user's conversation with *)
(* the latest updatedAt, any of them when several share it; no row when    *)
(* the user has none.                                                      *)
(***************************************************************************)
getUserAIConversations(userId) ==
    LET own == {c \in {aiConversations[i] : i \in 1..Len(aiConversations)} :
                   c.userId = userId}
    IN  IF own = {}
        THEN {NoRow}
        ELSE {c \in own : \A d \in own : d.updatedAt <= c.updatedAt}

(***************************************************************************)
(* storage.createAIConversation: one INSERT; updated_at defaults to now,   *)
(* context to NULL (created_at is written here and never read).            *)
(***************************************************************************)
createAIConversation(data) ==
    Append(aiConversations,
           [id |-> Len(aiConversations) + 1,
            userId |-> data.userId,
            userRole |-> data.userRole,
            messages |-> data.messages,
            context |-> Null,
            updatedAt |-> now])

(***************************************************************************)
(* storage.updateAIConversation: one UPDATE ... WHERE id = id; a key whose *)
(* value is undefined is left out of the SET clause.                       *)
(***************************************************************************)
updateAIConversation(id, updates) ==
    [i \in 1..Len(aiConversations) |->
        IF aiConversations[i].id = id
        THEN [aiConversations[i] EXCEPT
                 !.messages = updates.messages,
                 !.context = IF updates.context = Absent THEN @ ELSE updates.context,
                 !.updatedAt = updates.updatedAt]
        ELSE aiConversations[i]]

(***************************************************************************)
(* OpenRouterService.getChatResponse: the generated text, or the static    *)
(* fallback of the caller's role when the service fails.                   *)
(***************************************************************************)
FallbackResponse(role) ==
    CASE role = "patient" ->
           "I'm experiencing some technical difficulties right now. For immediate health concerns, please contact your healthcare provider or emergency services if urgent."
      [] role = "doctor" ->
           "AI assistant is temporarily unavailable. Please refer to your clinical guidelines and professional judgment for patient care decisions."
      [] role = "pharmacy" ->
           "AI assistant is currently offline. Please refer to your pharmaceutical databases and professional resources for medication information."
      [] OTHER ->
           "I'm sorry, but I'm experiencing technical difficulties. Please try again later or contact support if this persists."

(***************************************************************************)
(* A variant of the service whose fallback is the same for every role.     *)
(***************************************************************************)
getChatResponseOneFallback(message, role, upstream) ==
    IF upstream = "content" THEN "generated reply" ELSE FallbackResponse("other")

getChatResponse(message, role, upstream) ==
    IF upstream = "content" THEN "generated reply" ELSE FallbackResponse(role)

(***************************************************************************)
(* A variant of the transcript builder that appends the user's entry only. *)
(***************************************************************************)
updatedMessagesUserOnly(conversation, message, aiResponse) ==
    conversation.messages
        \o <<[role |-> "user", content |-> message, timestamp |-> now]>>

(***************************************************************************)
(* A variant of the transcript builder that puts the new turn in front.    *)
(***************************************************************************)
updatedMessagesNewestFirst(conversation, message, aiResponse) ==
    <<[role |-> "user", content |-> message, timestamp |-> now],
      [role |-> "assistant", content |-> aiResponse, timestamp |-> now]>>
        \o conversation.messages

(***************************************************************************)
(* A variant of the transcript builder that starts the transcript afresh.  *)
(***************************************************************************)
updatedMessagesFresh(conversation, message, aiResponse) ==
    <<[role |-> "user", content |-> message, timestamp |-> now],
      [role |-> "assistant", content |-> aiResponse, timestamp |-> now]>>

(***************************************************************************)
(* A variant of the transcript builder that puts the reply before the      *)
(* message it answers.                                                     *)
(***************************************************************************)
updatedMessagesReplyFirst(conversation, message, aiResponse) ==
    conversation.messages
        \o <<[role |-> "assistant", content |-> aiResponse, timestamp |-> now],
             [role |-> "user", content |-> message, timestamp |-> now]>>

(***************************************************************************)
(* The two entries a turn appends, stamped when the array is built.        *)
(***************************************************************************)
updatedMessages(conversation, message, aiResponse) ==
    conversation.messages
        \o <<[role |-> "user", content |-> message, timestamp |-> now],
             [role |-> "assistant", content |-> aiResponse, timestamp |-> now]>>

ChatReq(caller) ==
    [op |-> "chat", caller |-> caller, id |-> 0, status |-> Absent]

(***************************************************************************)
(* What a chat request that has answered leaves for the record: the        *)
(* request's locals.                                                       *)
(***************************************************************************)
ChatDone(r) == [locals |-> chat[r]] @@ ChatReq(chat[r].userId)

(***************************************************************************)
(* The request arrives and reads the user's conversations.                 *)
(***************************************************************************)
ChatStart(r, caller, message, context) ==
    /\ FreeRequest(r)
    /\ UNCHANGED <<prescriptions, inventory, aiConversations, clock>>
    /\ IF ~requireAuth(caller)
       THEN /\ req' = ChatReq(caller)
            /\ res' = Reply(401, NoRow)
            /\ UNCHANGED <<chat, turns>>
       ELSE /\ req' = NoReq
            /\ res' = Reply(0, NoRow)
            /\ turns < MaxTurns
            /\ turns' = turns + 1
            /\ \E first \in getUserAIConversations(caller) :
                  /\ chat' = [q \in ChatRequests |->
                        IF q = r
                        THEN [pc |-> IF first.id = 0 THEN "create" ELSE "respond",
                              userId |-> caller,
                              userRole |-> userRole(caller),
                              message |-> message,
                              context |-> context,
                              conversations |-> first,
                              conversationId |-> first.id,
                              alone |-> \A o \in ChatRequests \ {r} :
                                          ~(InFlight(o) /\ chat[o].userId = caller)]
                        ELSE IF InFlight(q) /\ chat[q].userId = caller
                        THEN [chat[q] EXCEPT !.alone = FALSE]
                        ELSE chat[q]]

(***************************************************************************)
(* A variant of the creation that looks again and takes the conversation   *)
(* the user has got in the meantime.                                       *)
(***************************************************************************)
ChatCreateIfNone(r) ==
    /\ chat[r].pc = "create"
    /\ Len(aiConversations) < MaxConversations
    /\ \E found \in getUserAIConversations(chat[r].userId) :
          IF found.id = 0
          THEN /\ aiConversations' = createAIConversation(
                      [userId |-> chat[r].userId, userRole |-> chat[r].userRole,
                       messages |-> <<>>])
               /\ chat' = [chat EXCEPT ![r].pc = "respond",
                                       ![r].conversationId = Len(aiConversations')]
          ELSE /\ aiConversations' = aiConversations
               /\ chat' = [chat EXCEPT ![r].pc = "respond",
                                       ![r].conversationId = found.id]
    /\ req' = NoReq
    /\ res' = Reply(0, NoRow)
    /\ UNCHANGED <<prescriptions, inventory, turns, clock>>

(***************************************************************************)
(* No conversation was found: the request creates one.                     *)
(***************************************************************************)
ChatCreate(r) ==
    /\ chat[r].pc = "create"
    /\ Len(aiConversations) < MaxConversations
    /\ aiConversations' = createAIConversation(
           [userId |-> chat[r].userId, userRole |-> chat[r].userRole,
            messages |-> <<>>])
    /\ chat' = [chat EXCEPT ![r].pc = "respond",
                            ![r].conversationId = Len(aiConversations')]
    /\ req' = NoReq
    /\ res' = Reply(0, NoRow)
    /\ UNCHANGED <<prescriptions, inventory, turns, clock>>

(***************************************************************************)
(* The text-generation service answers or fails; what it did is noted with *)
(* the request.  With a conversation read at the start, the new transcript *)
(* is built from it right away.                                            *)
(***************************************************************************)
ChatRespond(r, upstream) ==
    /\ chat[r].pc = "respond"
    /\ LET aiResponse == getChatResponse(chat[r].message, chat[r].userRole, upstream)
       IN  chat' = [chat EXCEPT ![r] =
              IF chat[r].conversations.id # 0
              THEN [pc |-> "update", aiResponse |-> aiResponse,
                    upstreamFailed |-> upstream # "content",
                    updatedMessages |->
                        updatedMessages(chat[r].conversations, chat[r].message,
                                        aiResponse),
                    updatedAt |-> now] @@ chat[r]
              ELSE [pc |-> "refetch", aiResponse |-> aiResponse,
                    upstreamFailed |-> upstream # "content"] @@ chat[r]]
    /\ req' = NoReq
    /\ res' = Reply(0, NoRow)
    /\ UNCHANGED <<prescriptions, inventory, aiConversations, turns, clock>>

(***************************************************************************)
(* conversations[0] was undefined: the request reads the user's            *)
(* conversations again and builds the new transcript from the first.       *)
(***************************************************************************)
ChatRefetch(r) ==
    /\ chat[r].pc = "refetch"
    /\ \E conversation \in getUserAIConversations(chat[r].userId) :
          /\ conversation.id # 0
          /\ chat' = [chat EXCEPT ![r] =
                [pc |-> "update",
                 updatedMessages |->
                     updatedMessages(conversation, chat[r].message,
                                     chat[r].aiResponse),
                 updatedAt |-> now] @@ chat[r]]
    /\ req' = NoReq
    /\ res' = Reply(0, NoRow)
    /\ UNCHANGED <<prescriptions, inventory, aiConversations, turns, clock>>

(***************************************************************************)
(* The request writes the transcript and the context to the conversation   *)
(* it chose and answers with the reply.                                    *)
(***************************************************************************)
ChatUpdate(r) ==
    /\ chat[r].pc = "update"
    /\ aiConversations' = updateAIConversation(
           chat[r].conversationId,
           [messages |-> chat[r].updatedMessages,
            context |-> chat[r].context,
            updatedAt |-> chat[r].updatedAt])
    /\ chat' = [chat EXCEPT ![r] = Idle]
    /\ req' = ChatDone(r)
    /\ res' = Reply(200, [response |-> chat[r].aiResponse])
    /\ UNCHANGED <<prescriptions, inventory, turns, clock>>

(***************************************************************************)
(* A store call of the request throws (the connection is lost, the         *)
(* statement times out): the handler's catch answers 500.  Nothing the     *)
(* request has written before is undone.                                   *)
(***************************************************************************)
ChatFail(r) ==
    /\ chat[r].pc \in {"create", "refetch", "update"}
    /\ chat' = [chat EXCEPT ![r] = Idle]
    /\ req' = ChatDone(r)
    /\ res' = Reply(500, NoRow)
    /\ UNCHANGED <<prescriptions, inventory, aiConversations, turns, clock>>

(***************************************************************************)
(* PUT /api/prescriptions/:id/status step by step, for requests that       *)
(* overlap: the gate runs when the request arrives, the UPDATE when the    *)
(* store gets to it.  A request in flight notes the callers whose requests *)
(* on the same prescription were in flight with it.                        *)
(***************************************************************************)
Rivals(r, id) ==
    {chat[o].userId : o \in {q \in ChatRequests \ {r} :
                                chat[q].pc = "updatePrescription" /\ chat[q].id = id}}

StatusArrive(r, caller, id, status) ==
    /\ FreeRequest(r)
    /\ UNCHANGED <<prescriptions, inventory, aiConversations, turns, clock>>
    /\ IF ~requireAuth(caller)
       THEN /\ req' = [op |-> "setStatus", caller |-> caller, id |-> id,
                       status |-> status]
            /\ res' = Reply(401, NoRow)
            /\ UNCHANGED chat
       ELSE IF userRole(caller) # "pharmacy"
       THEN /\ req' = [op |-> "setStatus", caller |-> caller, id |-> id,
                       status |-> status]
            /\ res' = Reply(403, NoRow)
            /\ UNCHANGED chat
       ELSE /\ req' = NoReq
            /\ res' = Reply(0, NoRow)
            /\ chat' = [q \in ChatRequests |->
                  IF q = r
                  THEN [pc |-> "updatePrescription", userId |-> caller,
                        id |-> id, status |-> status, rivals |-> Rivals(r, id)]
                  ELSE IF chat[q].pc = "updatePrescription" /\ chat[q].id = id
                  THEN [chat[q] EXCEPT !.rivals = @ \cup {caller}]
                  ELSE chat[q]]

(***************************************************************************)
(* A variant of the write that goes through only while the prescription is *)
(* pending, and answers 409 otherwise.                                     *)
(***************************************************************************)
StatusWriteIfPending(r) ==
    /\ chat[r].pc = "updatePrescription"
    /\ LET id == chat[r].id
       IN  IF id \in 1..Len(prescriptions) /\ prescriptions[id].status # "pending"
           THEN /\ UNCHANGED prescriptions
                /\ res' = Reply(409, NoRow)
           ELSE /\ prescriptions' = updatePrescription(id, chat[r].status)
                /\ res' = Reply(200, IF id \in 1..Len(prescriptions)
                                     THEN prescriptions'[id] ELSE NoRow)
    /\ chat' = [chat EXCEPT ![r] = Idle]
    /\ req' = [locals |-> chat[r]]
                 @@ [op |-> "setStatus", caller |-> chat[r].userId,
                     id |-> chat[r].id, status |-> chat[r].status]
    /\ UNCHANGED <<inventory, aiConversations, turns, clock>>

StatusWrite(r) ==
    /\ chat[r].pc = "updatePrescription"
    /\ prescriptions' = updatePrescription(chat[r].id, chat[r].status)
    /\ chat' = [chat EXCEPT ![r] = Idle]
    /\ req' = [locals |-> chat[r]]
                 @@ [op |-> "setStatus", caller |-> chat[r].userId,
                     id |-> chat[r].id, status |-> chat[r].status]
    /\ res' = Reply(200, IF chat[r].id \in 1..Len(prescriptions)
                         THEN prescriptions'[chat[r].id] ELSE NoRow)
    /\ UNCHANGED <<inventory, aiConversations, turns, clock>>

(***************************************************************************)
(* Time passes.                                                            *)
(***************************************************************************)
Tick ==
    /\ now < MaxNow
    /\ now' = now + 1
    /\ req' = NoReq
    /\ res' = Reply(0, NoRow)
    /\ UNCHANGED <<prescriptions, inventory, conversationStore, tz>>

(***************************************************************************)
(* Time passes while chat requests are served: the conversation store is   *)
(* observed over a shorter stretch of the same clock.                      *)
(***************************************************************************)
ChatTick == now < MaxChatNow /\ Tick

Init ==
    /\ prescriptions = <<>>
    /\ inventory = <<>>
    /\ aiConversations = <<>>
    /\ chat = [r \in ChatRequests |-> Idle]
    /\ turns = 0
    /\ now = 0
    /\ tz \in TzOffsets
    /\ req = NoReq
    /\ res = Reply(0, NoRow)

(***************************************************************************)
(* The store outlives the server: a start at which the patient already has *)
(* a conversation of one completed turn, left by an earlier run.           *)
(***************************************************************************)
StoredConversation ==
    [id |-> 1, userId |-> "pat1", userRole |-> userRole("pat1"),
     messages |-> <<[role |-> "user", content |-> "earlier", timestamp |-> 0],
                    [role |-> "assistant", content |-> "generated reply",
                     timestamp |-> 0]>>,
     context |-> Null,
     updatedAt |-> 0]

(***************************************************************************)
(* A start at which pharmacy X already holds an item, left by an earlier   *)
(* run.                                                                    *)
(***************************************************************************)
StoredItem ==
    [id |-> 1, pharmacyId |-> "X", medicineName |-> "Amoxicillin",
     currentStock |-> 5, minStockLevel |-> DefaultMinStockLevel,
     expiryDate |-> ExpiryHorizon]

InitStocked ==
    /\ prescriptions = <<>>
    /\ inventory = <<StoredItem>>
    /\ aiConversations = <<>>
    /\ chat = [r \in ChatRequests |-> Idle]
    /\ turns = 0
    /\ now = 0
    /\ tz = 0
    /\ req = NoReq
    /\ res = Reply(0, NoRow)

InitStored ==
    /\ prescriptions = <<>>
    /\ inventory = <<>>
    /\ aiConversations = <<StoredConversation>>
    /\ chat = [r \in ChatRequests |-> Idle]
    /\ turns = 0
    /\ now = 0
    /\ tz = 0
    /\ req = NoReq
    /\ res = Reply(0, NoRow)

LifecycleNext ==
    \/ \E r \in CreateRequests : CreatePrescription(r[1], r[2])
    \/ \E r \in StatusRequests : SetPrescriptionStatus(r[1], r[2], r[3])

InventoryNext ==
    \/ \E caller \in Callers, body \in InventoryBodies : CreateInventoryItem(caller, body)
    \/ \E caller \in Callers : PharmacyDashboard(caller)
    \/ Tick

ConversationNext ==
    \/ \E r \in ChatRequests, c \in ChatInputs :
          ChatStart(r, c[1], MessageOf(turns), c[2])
    \/ \E r \in ChatRequests : ChatCreate(r)
    \/ \E r \in ChatRequests, upstream \in UpstreamOutcomes : ChatRespond(r, upstream)
    \/ \E r \in ChatRequests : ChatRefetch(r)
    \/ \E r \in ChatRequests : ChatUpdate(r)
    \/ ChatTick

(***************************************************************************)
(* The five endpoints side by side, each called by every caller with one   *)
(* body: what the gates in front of the handlers let through.              *)
(***************************************************************************)
GateNext ==
    \/ \E r \in CreateRequests :
          /\ r[2].pharmacyId = "X" /\ r[2].medications # <<>>
          /\ CreatePrescription(r[1], r[2])
    \/ \E r \in StatusRequests :
          /\ r[2] = 1 /\ r[3] = "approved"
          /\ SetPrescriptionStatus(r[1], r[2], r[3])
    \/ \E caller \in Callers, body \in InventoryBodies :
          /\ Has(body, "expiryDate") /\ body.expiryDate = ExpiryHorizon
          /\ CreateInventoryItem(caller, body)
    \/ \E caller \in Callers : PharmacyDashboard(caller)
    \/ \E r \in ChatRequests, c \in ChatInputs :
          /\ c[1] # "phX" /\ c[2] = Absent
          /\ ChatStart(r, c[1], MessageOf(turns), c[2])
    \/ \E r \in ChatRequests : ChatRespond(r, "content")
    \/ \E r \in ChatRequests : ChatUpdate(r)

(***************************************************************************)
(* The conversation store when no user sends a request before the answer   *)
(* to the user's previous one; requests of different users still overlap.   *)
(***************************************************************************)
SequentialNext ==
    \/ \E r \in ChatRequests, c \in ChatInputs :
          /\ \A o \in ChatRequests : ~(InFlight(o) /\ chat[o].userId = c[1])
          /\ ChatStart(r, c[1], MessageOf(turns), c[2])
    \/ \E r \in ChatRequests : ChatCreate(r)
    \/ \E r \in ChatRequests, upstream \in UpstreamOutcomes : ChatRespond(r, upstream)
    \/ \E r \in ChatRequests : ChatRefetch(r)
    \/ \E r \in ChatRequests : ChatUpdate(r)
    \/ ChatTick

(***************************************************************************)
(* Prescriptions and overlapping status requests.                          *)
(***************************************************************************)
OverlapNext ==
    \/ \E r \in CreateRequests :
          /\ r[2].pharmacyId = "X" /\ r[2].status = "dispensed"
          /\ CreatePrescription(r[1], r[2])
    \/ \E q \in ChatRequests, r \in StatusRequests :
          /\ r[2] <= MaxRx /\ r[3] \in {"approved", "dispensed"}
          /\ StatusArrive(q, r[1], r[2], r[3])
    \/ \E q \in ChatRequests : StatusWrite(q)

(***************************************************************************)
(* The conversation store with a store that can fail.                      *)
(***************************************************************************)
FailingNext ==
    \/ ConversationNext
    \/ \E r \in ChatRequests : ChatFail(r)

Next == LifecycleNext \/ InventoryNext \/ ConversationNext

(***************************************************************************)
(* The server runs in UTC: the start of the runs that do not read local    *)
(* time.                                                                   *)
(***************************************************************************)
InitUTC == Init /\ tz = 0

SpecLifecycle == InitUTC /\ [][LifecycleNext]_vars

SpecStockedLifecycle == InitStocked /\ [][LifecycleNext]_vars

SpecOverlap == InitUTC /\ [][OverlapNext]_vars

SpecInventory == Init /\ [][InventoryNext]_vars

SpecConversation == InitUTC /\ [][ConversationNext]_vars

SpecSequentialConversation == InitUTC /\ [][SequentialNext]_vars

SpecFailingConversation == InitUTC /\ [][FailingNext]_vars

SpecStoredConversation == InitStored /\ [][ConversationNext]_vars

SpecGates == InitStored /\ [][GateNext]_vars

Spec == Init /\ [][Next]_vars

(***************************************************************************)
(* The prescription lifecycle.                                             *)
(***************************************************************************)
Range(s) == {s[i] : i \in 1..Len(s)}

QueueIds(pharmacyId) == {p.id : p \in Range(getPharmacyPrescriptions(pharmacyId))}

IsSuccessor(old, new) ==
    \E i \in 1..(Len(PrescriptionStatuses) - 1) :
        old = PrescriptionStatuses[i] /\ new = PrescriptionStatuses[i + 1]

\* C1: a successful create-prescription request stores and returns a
\* prescription whose status is 'pending', whatever status the body carries.
C1_CreateYieldsPending ==
    (req.op = "createPrescription" /\ res.code = 200)
        => /\ userRole(req.caller) = "doctor"
           /\ res.row.status = "pending"
           /\ res.row.id = Len(prescriptions)
           /\ prescriptions[Len(prescriptions)] = res.row

C1_Witness ==
    /\ req.op = "createPrescription"
    /\ req.status = "dispensed"
    /\ res.code = 200
    /\ prescriptions[Len(prescriptions)].status = "pending"

\* C2: every change of a prescription's status goes to the immediate
\* successor in pending -> approved -> dispensed -> completed.
C2_OnlySuccessorTransitions ==
    [][\A i \in 1..Len(prescriptions) :
          prescriptions'[i].status # prescriptions[i].status
              => IsSuccessor(prescriptions[i].status, prescriptions'[i].status)]_vars

\* C3: a setStatus request of an authenticated caller who is not a pharmacy
\* is answered 403 and changes no prescription; every change of a status is
\* made by a setStatus request of a pharmacy-role caller.
C3_OnlyPharmacySetsStatus ==
    /\ [][(/\ req'.op = "setStatus"
           /\ requireAuth(req'.caller)
           /\ userRole(req'.caller) # "pharmacy")
             => (res'.code = 403 /\ prescriptions' = prescriptions)]_vars
    /\ [][(\E i \in 1..Len(prescriptions) :
              prescriptions'[i].status # prescriptions[i].status)
             => (req'.op = "setStatus" /\ userRole(req'.caller) = "pharmacy")]_vars

C3_Witness ==
    /\ req.op = "setStatus"
    /\ userRole(req.caller) = "doctor"
    /\ res.code = 403
    /\ req.id \in 1..Len(prescriptions)
    /\ prescriptions[req.id].status = "pending"
    /\ req.status = "approved"

\* C4: a create-prescription request is answered 403 when the caller's role
\* is not doctor and 404 when the caller is a doctor without a doctor
\* profile; in both cases the stored prescriptions are unchanged.
C4_CreateGates ==
    [][(req'.op = "createPrescription" /\ requireAuth(req'.caller))
          => /\ userRole(req'.caller) # "doctor"
                  => (res'.code = 403 /\ prescriptions' = prescriptions)
             /\ (/\ userRole(req'.caller) = "doctor"
                 /\ getDoctorByUserId(req'.caller) = NoProfile)
                  => (res'.code = 404 /\ prescriptions' = prescriptions)]_vars

C4_Witness ==
    /\ req.op = "createPrescription"
    /\ req.caller = "doc0"
    /\ res.code = 404
    /\ Len(prescriptions) > 0

\* C5: no dispenser queue contains a dispensed or completed prescription.
C5_QueueHasNoDispensed ==
    \A x \in PharmacyIds :
        \A p \in Range(getPharmacyPrescriptions(x)) :
            p.status \notin {"dispensed", "completed"}

C5_Witness ==
    \E x \in PharmacyIds :
        /\ QueueIds(x) # {}
        /\ \E i \in 1..Len(prescriptions) :
              /\ prescriptions[i].pharmacyId = x
              /\ prescriptions[i].status \in {"dispensed", "completed"}

\* C6: after every step the queue of each pharmacy x holds only prescriptions
\* whose pharmacyId is x, and a prescription without a pharmacy stays without
\* one: a prescription created with no pharmacy is in no queue, then or later.
C6_QueueOnlyOwn ==
    [][/\ \A x \in PharmacyIds :
            \A p \in Range(getPharmacyPrescriptions(x)') : p.pharmacyId = x
       /\ \A i \in 1..Len(prescriptions) :
            prescriptions[i].pharmacyId = Null => prescriptions'[i].pharmacyId = Null]_vars

C6_Witness ==
    /\ req.op = "setStatus"
    /\ res.code = 200
    /\ req.id \in 1..Len(prescriptions)
    /\ prescriptions[req.id].pharmacyId = Null
    /\ prescriptions[req.id].status = "approved"
    /\ \E x \in PharmacyIds : QueueIds(x) # {}

\* C7: when dispenser x approves a pending prescription of its own, the
\* queue of x still holds it; when the status of an approved prescription
\* of x is set to dispensed, the queue of x holds it no longer.
C7_ApprovedStaysDispensedLeaves ==
    [][\A x \in PharmacyIds :
         (/\ req'.op = "setStatus"
          /\ userRole(req'.caller) = "pharmacy"
          /\ req'.id \in 1..Len(prescriptions)
          /\ prescriptions[req'.id].pharmacyId = x)
            => /\ (/\ getPharmacyByUserId(req'.caller) = x
                   /\ prescriptions[req'.id].status = "pending"
                   /\ req'.status = "approved")
                    => req'.id \in QueueIds(x)'
               /\ (/\ prescriptions[req'.id].status = "approved"
                   /\ req'.status = "dispensed")
                    => (req'.id \in QueueIds(x) /\ req'.id \notin QueueIds(x)')]_vars

C7_Witness ==
    /\ req.op = "setStatus"
    /\ res.code = 200
    /\ req.status = "approved"
    /\ req.id \in 1..Len(prescriptions)
    /\ prescriptions[req.id].pharmacyId = getPharmacyByUserId(req.caller)
    /\ req.id \in QueueIds(getPharmacyByUserId(req.caller))
    /\ \E i \in 1..Len(prescriptions) :
          /\ prescriptions[i].pharmacyId = getPharmacyByUserId(req.caller)
          /\ prescriptions[i].status = "dispensed"

(***************************************************************************)
(* The inventory ledger.                                                   *)
(***************************************************************************)
DayCounts == {0, 1, ExpiryHorizon}

Today == now \div TicksPerDay

\* C8: for every pharmacy x, the low-stock query of x returns a stored item
\* if and only if the item belongs to x and its currentStock is strictly
\* below its minStockLevel, and it returns nothing else.
C8_LowStockIsStrict ==
    \A x \in PharmacyIds :
        /\ Range(getLowStockItems(x)) \subseteq Range(inventory)
        /\ \A i \in 1..Len(inventory) :
              inventory[i] \in Range(getLowStockItems(x))
                  <=> /\ inventory[i].pharmacyId = x
                      /\ inventory[i].currentStock < inventory[i].minStockLevel

C8_Witness ==
    /\ req.op = "pharmacyDashboard"
    /\ res.code = 200
    /\ \E i, j \in 1..Len(inventory) :
          /\ inventory[i].pharmacyId = res.row.pharmacy
          /\ inventory[i].currentStock = 10
          /\ inventory[i].minStockLevel = 10
          /\ inventory[i] \notin Range(res.row.lowStockItems)
          /\ inventory[j].pharmacyId = res.row.pharmacy
          /\ inventory[j].currentStock = 5
          /\ inventory[j].minStockLevel = 10
          /\ inventory[j] \in Range(res.row.lowStockItems)

ConversationsOf(userId) ==
    {i \in 1..Len(aiConversations) : aiConversations[i].userId = userId}

FirstTurnAlone ==
    /\ req.op = "chat"
    /\ res.code = 200
    /\ req.locals.conversations.id = 0
    /\ req.locals.alone

\* C10: when a user who had no stored conversation completes a chat turn
\* while no other request of that user is in flight, the store holds exactly
\* one conversation of that user, and its transcript is exactly the user's
\* message followed by the assistant's reply.
C10_FirstTurnCreatesOneConversation ==
    FirstTurnAlone
        => /\ Cardinality(ConversationsOf(req.caller)) = 1
           /\ \A i \in ConversationsOf(req.caller) :
                 LET messages == aiConversations[i].messages
                 IN  /\ Len(messages) = 2
                     /\ messages[1].role = "user"
                     /\ messages[1].content = req.locals.message
                     /\ messages[2].role = "assistant"
                     /\ messages[2].content = req.locals.aiResponse
                     /\ res.row.response = req.locals.aiResponse

C10_Witness ==
    /\ FirstTurnAlone
    /\ req.caller = "pat1"
    /\ ConversationsOf("phX") # {}
    /\ \E r \in ChatRequests : InFlight(r) /\ chat[r].userId = "phX"
    /\ \A i \in ConversationsOf("pat1") : Len(aiConversations[i].messages) = 2

LaterTurnAlone ==
    /\ req.op = "chat"
    /\ res.code = 200
    /\ req.locals.conversations.id # 0
    /\ req.locals.alone

\* C11: when a user who already has a conversation completes a chat turn
\* while no other request of that user is in flight, the transcript of the
\* user's active conversation becomes the old transcript followed by two
\* new entries, the user's message and the assistant's reply: every earlier
\* entry keeps its place and its content.
C11_LaterTurnAppendsTwo ==
    [][LaterTurnAlone' =>
          \E id \in 1..Len(aiConversations) :
              LET old == aiConversations[id].messages
                  new == aiConversations'[id].messages
              IN  /\ id = req'.locals.conversationId
                  /\ aiConversations[id] \in getUserAIConversations(aiConversations[id].userId)
                  /\ aiConversations'[id] \in getUserAIConversations(aiConversations[id].userId)'
                  /\ aiConversations[id].userId = req'.caller
                  /\ Len(new) = Len(old) + 2
                  /\ SubSeq(new, 1, Len(old)) = old
                  /\ new[Len(old) + 1].role = "user"
                  /\ new[Len(old) + 1].content = req'.locals.message
                  /\ new[Len(old) + 2].role = "assistant"
                  /\ new[Len(old) + 2].content = req'.locals.aiResponse]_vars

C11_Witness ==
    /\ LaterTurnAlone
    /\ Len(aiConversations[req.locals.conversationId].messages) = 4
    /\ aiConversations[req.locals.conversationId].messages[1].content
           # aiConversations[req.locals.conversationId].messages[3].content

TurnDone == req.op = "chat" /\ res.code = 200

\* C12: a chat turn during which the text-generation service failed is
\* persisted all the same: the conversation written ends with the user's
\* message followed by an assistant entry that is the static fallback of
\* the caller's role, and the request answers with success and that text.
C12_FallbackIsPersisted ==
    (TurnDone /\ req.locals.upstreamFailed)
        => LET messages == aiConversations[req.locals.conversationId].messages
               fallback == FallbackResponse(userRole(req.caller))
           IN  /\ Len(messages) >= 2
               /\ messages[Len(messages) - 1].role = "user"
               /\ messages[Len(messages) - 1].content = req.locals.message
               /\ messages[Len(messages)].role = "assistant"
               /\ messages[Len(messages)].content = fallback
               /\ res.row.response = fallback

C12_Witness ==
    /\ TurnDone
    /\ req.locals.upstreamFailed
    /\ req.caller = "phX"
    /\ \E i \in ConversationsOf("pat1") :
          /\ Len(aiConversations[i].messages) = 2
          /\ aiConversations[i].messages[2].content = FallbackResponse("patient")

\* C13: the transcript survives overlapping requests of one user: a turn
\* that found the user's conversation and completes leaves in it everything
\* it held just before, followed by the turn's two entries, so that after
\* two overlapping turns the transcript has grown by four entries and holds
\* both turns.
C13_OverlappingTurnsKept ==
    [][(/\ TurnDone'
        /\ req'.locals.conversations.id # 0
        /\ req'.locals.conversations.messages # <<>>) =>
          \E id \in 1..Len(aiConversations) :
              LET old == aiConversations[id].messages
                  new == aiConversations'[id].messages
              IN  /\ id = req'.locals.conversationId
                  /\ Len(new) = Len(old) + 2
                  /\ SubSeq(new, 1, Len(old)) = old]_vars

\* C14: the duplicate-creation race exists.  A request that observed no
\* conversation of its user inserts one without looking again, whatever the
\* store holds by then; so two overlapping requests of a user who had none
\* can both observe none, and the store ends with two conversations of that
\* user (the run C14_Witness describes).
C14_CreateDoesNotLookAgain ==
    [][\A r \in ChatRequests :
          (chat[r].pc = "create" /\ chat'[r].pc # "create")
              => /\ chat[r].conversations.id = 0
                 /\ Len(aiConversations') = Len(aiConversations) + 1
                 /\ aiConversations'[Len(aiConversations')].userId = chat[r].userId
                 /\ aiConversations'[Len(aiConversations')].messages = <<>>
                 /\ chat'[r].conversationId = Len(aiConversations')]_vars

C14_Witness ==
    /\ TurnDone
    /\ req.locals.conversations.id = 0
    /\ ~req.locals.alone
    /\ \A r \in ChatRequests : ~InFlight(r)
    /\ Cardinality(ConversationsOf(req.caller)) = 2

(***************************************************************************)
(* The gates of the endpoints.                                             *)
(***************************************************************************)
CoreOps ==
    {"createPrescription", "setStatus", "createInventoryItem",
     "pharmacyDashboard", "chat"}

RoleGate(op) ==
    CASE op = "createPrescription" -> {"doctor"}
      [] op \in {"setStatus", "createInventoryItem", "pharmacyDashboard"} ->
           {"pharmacy"}
      [] OTHER -> {"patient", "doctor", "pharmacy"}

\* C15: on each of the five endpoints a request with no session is answered
\* 401 and a request of a caller whose role the endpoint does not admit is
\* answered 403; a request answered 401 or 403 leaves every prescription,
\* inventory item and conversation as it was, and creates none.
C15_GatesRejectWithoutChange ==
    [][/\ (req'.op \in CoreOps /\ res'.code # 0)
            => /\ req'.caller = NoSession <=> res'.code = 401
               /\ (req'.caller # NoSession
                     /\ userRole(req'.caller) \notin RoleGate(req'.op))
                    <=> res'.code = 403
       /\ res'.code \in {401, 403}
            => UNCHANGED <<prescriptions, inventory, aiConversations>>]_vars

C15_Witness ==
    /\ req.op = "setStatus"
    /\ req.caller = "doc1"
    /\ res.code = 403
    /\ Len(prescriptions) > 0
    /\ prescriptions[1].status = "pending"
    /\ Len(inventory) > 0
    /\ Len(aiConversations[1].messages) = 4
    /\ \E r \in ChatRequests : InFlight(r)

(***************************************************************************)
(* The stored records.                                                     *)
(***************************************************************************)
\* C16: in every reachable state the status of every stored prescription
\* is one of pending, approved, dispensed, completed.
C16_StatusInDomain ==
    \A i \in 1..Len(prescriptions) : prescriptions[i].status \in StatusSet

\* C17: in every reachable state every stored inventory item has a
\* currentStock and a minStockLevel that are not negative.
C17_StockNotNegative ==
    \A i \in 1..Len(inventory) :
        /\ inventory[i].currentStock >= 0
        /\ inventory[i].minStockLevel >= 0

\* C18: every stored prescription has a medication list that is not empty.
C18_MedicationsNotEmpty ==
    \A i \in 1..Len(prescriptions) : prescriptions[i].medications # <<>>

NotAssignedTo(i, caller) ==
    prescriptions[i].pharmacyId \notin {Null, getPharmacyByUserId(caller)}

\* C19: a set-status request of a dispenser on a prescription assigned to
\* another dispenser is answered 403 and leaves the prescription as it was;
\* a prescription changes only by a request of the dispenser it is assigned
\* to, or of any dispenser while it is assigned to none.
C19_OnlyOwnDispenserSetsStatus ==
    [][\A i \in 1..Len(prescriptions) :
          /\ (req'.op = "setStatus" /\ req'.id = i /\ NotAssignedTo(i, req'.caller))
                => res'.code \in {401, 403}
          /\ prescriptions'[i] # prescriptions[i]
                => ~NotAssignedTo(i, req'.caller)]_vars

\* C20: a set-status request that succeeds on prescription p changes the
\* status of p and nothing else: the other fields of p, every other
\* prescription and every inventory item (its currentStock included) are
\* as they were, also when the new status is dispensed; and no step ever
\* removes a prescription.
C20_SetStatusChangesStatusOnly ==
    [][/\ Len(prescriptions') >= Len(prescriptions)
       /\ \A i \in 1..Len(prescriptions) : prescriptions'[i].id = prescriptions[i].id
       /\ (req'.op = "setStatus" /\ res'.code = 200)
            => /\ Len(prescriptions') = Len(prescriptions)
               /\ \A i \in 1..Len(prescriptions) :
                     prescriptions'[i] =
                        IF i = req'.id
                        THEN [prescriptions[i] EXCEPT !.status = req'.status]
                        ELSE prescriptions[i]
               /\ inventory' = inventory]_vars

C20_Witness ==
    /\ req.op = "setStatus"
    /\ res.code = 200
    /\ req.status = "dispensed"
    /\ Len(prescriptions) = 2
    /\ req.id = 1
    /\ prescriptions[1].status = "dispensed"
    /\ prescriptions[1].medications = <<"Amoxicillin">>
    /\ prescriptions[2].status = "approved"
    /\ inventory = <<StoredItem>>

(***************************************************************************)
(* The shape of the transcripts.                                           *)
(***************************************************************************)
\* C21: in every reachable state, also after overlapping chat requests of
\* one user, the timestamps of the entries of every conversation do not
\* decrease along the transcript.
C21_TimestampsDoNotDecrease ==
    \A c \in 1..Len(aiConversations) :
        \A i, j \in 1..Len(aiConversations[c].messages) :
            i < j => aiConversations[c].messages[i].timestamp
                        <= aiConversations[c].messages[j].timestamp

C21_Witness ==
    /\ TurnDone
    /\ ~req.locals.alone
    /\ \E c \in 1..Len(aiConversations) :
          /\ Len(aiConversations[c].messages) = 4
          /\ aiConversations[c].messages[2].timestamp
                 < aiConversations[c].messages[3].timestamp

\* C22: in every reachable state, under any interleaving of chat requests,
\* every transcript has an even number of entries and alternates roles
\* from the start: the odd entries are the user's, the even the assistant's.
C22_TranscriptAlternates ==
    \A c \in 1..Len(aiConversations) :
        LET messages == aiConversations[c].messages
        IN  /\ Len(messages) % 2 = 0
            /\ \A i \in 1..Len(messages) :
                  messages[i].role = IF i % 2 = 1 THEN "user" ELSE "assistant"

C22_Witness ==
    /\ \E c \in 1..Len(aiConversations) :
          /\ Len(aiConversations[c].messages) = 4
          /\ aiConversations[c].messages[1].content
                 # aiConversations[c].messages[3].content
    /\ \E c \in 1..Len(aiConversations) : Len(aiConversations[c].messages) = 2
    /\ Cardinality(ConversationsOf("pat1")) = 2

\* C23: when the chat requests of a user never overlap, every completed
\* turn leaves the user with exactly one conversation, the one the turn
\* wrote; its transcript is the one the turn found (none on the first
\* turn) followed by the turn's two entries, and its context is the context
\* of this, the latest, request.
C23_SequentialTurnsOneConversation ==
    TurnDone =>
        /\ ConversationsOf(req.caller) = {req.locals.conversationId}
        /\ LET c == aiConversations[req.locals.conversationId]
               found == IF req.locals.conversations.id = 0
                        THEN <<>> ELSE req.locals.conversations.messages
           IN  /\ req.locals.conversations.id \in {0, c.id}
               /\ Len(c.messages) = Len(found) + 2
               /\ SubSeq(c.messages, 1, Len(found)) = found
               /\ c.context = IF req.locals.context = Absent
                               THEN Null ELSE req.locals.context

(***************************************************************************)
(* Overlapping requests and failures.                                      *)
(***************************************************************************)
\* C24: two dispensers can double-act on one prescription.  A set-status
\* request of a pharmacy-role caller is never turned away, whatever other
\* request on the same prescription is in flight and whatever the status
\* is by then; its write sets the status of the row to its own value in one
\* step and touches no other row, so that the status after two overlapping
\* requests is that of the later write.
C24_LastWriteWins ==
    [][/\ (req'.op = "setStatus" /\ userRole(req'.caller) = "pharmacy")
            => res'.code = 200
       /\ \A r \in ChatRequests :
             (chat[r].pc = "updatePrescription" /\ chat'[r].pc = "idle")
                 => /\ res'.code = 200
                    /\ Len(prescriptions') = Len(prescriptions)
                    /\ \A i \in 1..Len(prescriptions) :
                          prescriptions'[i] =
                             IF i = chat[r].id
                             THEN [prescriptions[i] EXCEPT !.status = chat[r].status]
                             ELSE prescriptions[i]]_vars

C24_Witness ==
    /\ req.op = "setStatus"
    /\ res.code = 200
    /\ req.caller = "phY"
    /\ req.locals.rivals = {"phX"}
    /\ req.status = "approved"
    /\ \A r \in ChatRequests : ~InFlight(r)
    /\ req.id \in 1..Len(prescriptions)
    /\ prescriptions[req.id].status = "approved"
    /\ prescriptions[req.id].pharmacyId = "X"

\* C25: a chat request that is answered with an error leaves nothing
\* half-created: the store holds no conversation that the request created.
C25_FailedTurnLeavesNothing ==
    (req.op = "chat" /\ res.code = 500)
        => ~ /\ req.locals.conversations.id = 0
             /\ req.locals.conversationId \in 1..Len(aiConversations)

\* C26: a setStatus request of a pharmacy-role caller whose id matches no
\* stored prescription is answered with an error (NotFound), not a success,
\* and leaves every prescription unchanged.
C26_UnknownIdIsNotFound ==
    [][(/\ req'.op = "setStatus"
        /\ userRole(req'.caller) = "pharmacy"
        /\ req'.id \notin 1..Len(prescriptions))
           => /\ res'.code \in 400..599
              /\ prescriptions' = prescriptions]_vars

\* C27: the low-stock rule is the same in the client and the server: for a
\* stored item with currentStock > 0, the modal's "Low Stock" badge and its
\* quick-restock list flag the item exactly when the server's low-stock
\* query of its pharmacy returns it.
C27_LowStockRuleAgrees ==
    \A i \in 1..Len(inventory) :
        LET item == inventory[i]
            server == item \in Range(getLowStockItems(item.pharmacyId))
            badge == getStockStatus(item.currentStock, item.minStockLevel) = "low"
            listed == item \in Range(quickRestockItems(inventory))
        IN  item.currentStock > 0 => (badge <=> server) /\ (listed <=> server)

\* C28: every stored inventory item is stored under the pharmacy profile of
\* the caller who created it, whatever pharmacyId the request body carries;
\* the stored items change only by a successful create request, which adds
\* one item and leaves the others as they were.
C28_ItemStoredUnderCaller ==
    [][IF req'.op = "createInventoryItem" /\ res'.code = 200
       THEN /\ Len(inventory') = Len(inventory) + 1
            /\ SubSeq(inventory', 1, Len(inventory)) = inventory
            /\ inventory'[Len(inventory')].pharmacyId
                   = getPharmacyByUserId(req'.caller)
       ELSE inventory' = inventory]_vars

C28_Witness ==
    /\ req.op = "createInventoryItem"
    /\ req.caller = "phX"
    /\ Has(req, "pharmacyId")
    /\ req.pharmacyId = "Y"
    /\ res.code = 200
    /\ inventory # <<>>
    /\ inventory[Len(inventory)] = res.row
    /\ res.row.pharmacyId = "X"

\* C29: every stored prescription's doctorId is the doctor profile of the
\* caller who created it, whatever the request body carries: a successful
\* create request adds one prescription with the caller's doctor profile,
\* and no step changes the doctorId of a stored prescription.
C29_PrescriptionAuthoredByCaller ==
    [][/\ \A i \in 1..Len(prescriptions) :
              /\ i <= Len(prescriptions')
              /\ prescriptions'[i].doctorId = prescriptions[i].doctorId
       /\ IF req'.op = "createPrescription" /\ res'.code = 200
          THEN /\ Len(prescriptions') = Len(prescriptions) + 1
               /\ prescriptions'[Len(prescriptions')].doctorId
                      = getDoctorByUserId(req'.caller)
          ELSE Len(prescriptions') = Len(prescriptions)]_vars

C29_Witness ==
    /\ req.op = "createPrescription"
    /\ req.caller = "doc1"
    /\ Has(req, "doctorId")
    /\ req.doctorId = "D2"
    /\ res.code = 200
    /\ prescriptions # <<>>
    /\ prescriptions[Len(prescriptions)] = res.row
    /\ res.row.doctorId = "D1"

\* C30: no turn is copied across conversations: under any interleaving of
\* chat requests, the user entry of a turn (every turn of the model has a
\* message of its own) is in at most one conversation.
C30_TurnInOneConversation ==
    \A c, d \in 1..Len(aiConversations) :
        c # d =>
            \A i \in 1..Len(aiConversations[c].messages),
               j \in 1..Len(aiConversations[d].messages) :
                aiConversations[c].messages[i].role = "user"
                    => aiConversations[c].messages[i].content
                          # aiConversations[d].messages[j].content

====
